---- MODULE Spec2Model ----
(***************************************************************************)
(* Model of the parking backend (src/main.py): a FastAPI application with  *)
(* three endpoints over one SQLite table, parking_spots, and an outbound   *)
(* reverse-geocoding call.                                                 *)
(*                                                                         *)
(* Every HTTP request is a process r in Requests.  The framework may run   *)
(* handlers in parallel worker threads, so a handler is split at the       *)
(* statements that reach the shared table (commit, refresh, query); the    *)
(* statements between them touch only the request's own objects and run    *)
(* in the same step.  The program counter req[r].pc forces the statements  *)
(* of a handler to run in source order.  The locals of a handler (reply,   *)
(* new_spot) are dropped when its frame is left, by return or by an        *)
(* exception.                                                              *)
(*                                                                         *)
(* Coordinates are fixed-point numbers in units of 1e-4 degree, so         *)
(* 37.7749 is 377749.  Python's None is the string "<None>", a JSON        *)
(* object is "<dict>", and a missing key is "<missing>".  A transient ORM  *)
(* object has id 0 (SQLite rowids start at 1).                             *)
(***************************************************************************)
EXTENDS Integers, Sequences, FiniteSets

VARIABLES
    GOOGLE_MAPS_API_KEY,  \* module-level configuration string
    table,                \* rows of parking_spots, in insertion order
    req                   \* per-request state

vars == <<GOOGLE_MAPS_API_KEY, table, req>>

MaxRequests == 2

Requests == 1..MaxRequests

None == "<None>"
Dict == "<dict>"
Missing == "<missing>"

-----------------------------------------------------------------------------
(* Configuration *)

PLACEHOLDER_KEY == "YOUR_GOOGLE_MAPS_API_KEY"

ApiKeys == {PLACEHOLDER_KEY, "AIza-configured"}

-----------------------------------------------------------------------------
(* Request bodies of POST /mark-spot/ *)

\* Three request bodies: owner_name left out, JSON null, and a string; the
\* coordinates of the second are outside [-90,90] x [-180,180]
Bodies ==
    { [latitude |-> 377749, longitude |-> -1224194, owner_name |-> Missing],
      [latitude |-> 1234567, longitude |-> -9999999, owner_name |-> "Alice"],
      [latitude |-> -338688, longitude |-> 1512093, owner_name |-> None] }

\* ParkingSpotCreate with owner_name ignored
ParkingSpotCreate_no_owner(body) ==
    [latitude |-> body.latitude,
     longitude |-> body.longitude,
     owner_name |-> "Anonymous"]

\* pydantic model: the two floats are taken as given, owner_name defaults
\* to "Anonymous" when the key is absent; an explicit null stays None
ParkingSpotCreate(body) ==
    [latitude |-> body.latitude,
     longitude |-> body.longitude,
     owner_name |-> IF body.owner_name = Missing THEN "Anonymous"
                    ELSE body.owner_name]

-----------------------------------------------------------------------------
(* Replies of the geocoding service *)

Result(fa) == [formatted_address |-> fa]

Reply(t, j, s, h, rs) ==
    [transport |-> t, json |-> j, status |-> s, hasResults |-> h, results |-> rs]

\* transport: "error" when requests.get raises
\* json: "invalid" (response.json() raises), "array" (valid JSON, not an
\*       object), "object"
\* status: value of data.get('status'), None when the key is absent
\* hasResults / results: the 'results' key of the object
Replies ==
    { Reply("error", "invalid", None, FALSE, <<>>),
      Reply("ok", "invalid", None, FALSE, <<>>),
      Reply("ok", "array", None, FALSE, <<>>),
      Reply("ok", "object", None, FALSE, <<>>),
      Reply("ok", "object", "ZERO_RESULTS", TRUE, <<>>),
      Reply("ok", "object", "OK", FALSE, <<>>),
      Reply("ok", "object", "OK", TRUE, <<>>),
      Reply("ok", "object", "OK", TRUE, <<Result(Missing)>>),
      Reply("ok", "object", "OK", TRUE, <<Result("1 Main St"), Result("2 Side Rd")>>),
      Reply("ok", "object", "OK", TRUE, <<Result(Dict)>>) }

NoReply == Reply("none", "invalid", None, FALSE, <<>>)

\* data['results'][0]['formatted_address'] raises KeyError or IndexError
LookupRaises(reply) ==
    \/ ~reply.hasResults
    \/ Len(reply.results) = 0
    \/ reply.results[1].formatted_address = Missing

\* The body of the try block raises: requests.get, response.json(),
\* data.get on a non-object, or the subscript chain
TryRaises(reply) ==
    \/ reply.transport = "error"
    \/ reply.json # "object"
    \/ (reply.status = "OK" /\ LookupRaises(reply))

\* get_address_from_google without the test of line 76
get_address_no_key_check(key, reply) ==
    IF TryRaises(reply)
    THEN [address |-> "Error retrieving address", calls |-> 1]
    ELSE IF reply.status = "OK"
    THEN [address |-> reply.results[1].formatted_address, calls |-> 1]
    ELSE [address |-> "Address not found", calls |-> 1]

\* get_address_from_google asking a second time when the first try raised
get_address_retrying(key, reply) ==
    IF key = PLACEHOLDER_KEY
    THEN [address |-> "Address lookup disabled (API Key missing)", calls |-> 0]
    ELSE IF TryRaises(reply)
    THEN [address |-> "Error retrieving address", calls |-> 2]
    ELSE IF reply.status = "OK"
    THEN [address |-> reply.results[1].formatted_address, calls |-> 1]
    ELSE [address |-> "Address not found", calls |-> 1]

\* Returns the address and the number of outbound requests made
get_address_from_google(key, reply) ==
    IF key = PLACEHOLDER_KEY
    THEN [address |-> "Address lookup disabled (API Key missing)", calls |-> 0]
    ELSE IF TryRaises(reply)
    THEN [address |-> "Error retrieving address", calls |-> 1]
    ELSE IF reply.status = "OK"
    THEN [address |-> reply.results[1].formatted_address, calls |-> 1]
    ELSE [address |-> "Address not found", calls |-> 1]

-----------------------------------------------------------------------------
(* The parking_spots table *)

\* ParkingSpotDB with the latitude clamped to [-90, 90]
ParkingSpotDB_clamped(lat, lng, addr, owner) ==
    [id |-> 0,
     latitude |-> IF lat > 900000 THEN 900000
                  ELSE IF lat < -900000 THEN -900000 ELSE lat,
     longitude |-> lng, address |-> addr,
     owner_name |-> owner, is_active |-> None]

\* ORM object built by the handler: id, is_active not set yet
ParkingSpotDB(lat, lng, addr, owner) ==
    [id |-> 0, latitude |-> lat, longitude |-> lng, address |-> addr,
     owner_name |-> owner, is_active |-> None]

NoSpot == ParkingSpotDB(0, 0, None, None)

RECURSIVE MaxId(_)
MaxId(rows) ==
    IF rows = <<>> THEN 0
    ELSE LET m == MaxId(Tail(rows)) IN
         IF Head(rows).id > m THEN Head(rows).id ELSE m

\* NextRowId that never looks at the rows in use
NextRowId_stale(rows) == 1

\* INTEGER PRIMARY KEY: SQLite assigns the largest rowid in use plus one
NextRowId(rows) == MaxId(rows) + 1

\* Column(String, default="Anonymous"): the ORM leaves a None attribute out
\* of the INSERT, so the column default fires
OwnerColumn(v) == IF v = None THEN "Anonymous" ELSE v

\* Column(Boolean, default=True)
ActiveColumn(v) == IF v = None THEN "True" ELSE v

\* sqlite3 binds str and None; any other Python object is rejected
Bindable(v) == v # Dict

\* The row written by the INSERT of db.commit()
InsertedRow(rows, obj) ==
    [id |-> NextRowId(rows),
     latitude |-> obj.latitude,
     longitude |-> obj.longitude,
     address |-> obj.address,
     owner_name |-> OwnerColumn(obj.owner_name),
     is_active |-> ActiveColumn(obj.is_active)]

RowsWithId(rows, i) == {k \in 1..Len(rows) : rows[k].id = i}

-----------------------------------------------------------------------------
(* Requests *)

NoBody == [latitude |-> 0, longitude |-> 0, owner_name |-> None]

NoResponse ==
    [status |-> 0, detail |-> None, spot |-> NoSpot, message |-> None, rows |-> <<>>]

\* kind: "none" until the request arrives, then "create", "list" or "root"
\* body: what the client sent;  reply: the geocoding exchange of the request
\* netCalls: outbound requests made;  opened: sessions opened
\* exc: the exception that left the handler, None if none did
\* okBefore, quiet: for a list request, the number of create requests that
\*   had been answered with success when the query ran, and whether no
\*   create request was in progress then
IdleRequest ==
    [kind |-> "none", pc |-> "idle", body |-> NoBody, reply |-> NoReply,
     netCalls |-> 0, new_spot |-> NoSpot, session |-> "none", opened |-> 0,
     exc |-> None, response |-> NoResponse, okBefore |-> 0, quiet |-> FALSE]

Init ==
    /\ GOOGLE_MAPS_API_KEY \in ApiKeys
    /\ table = <<>>
    /\ req = [r \in Requests |-> IdleRequest]

\* Requests are numbered in the order they arrive
NextToArrive(r) ==
    /\ req[r].pc = "idle"
    /\ \A s \in Requests : s < r => req[s].pc # "idle"

ClearLocals(rq) == [rq EXCEPT !.reply = NoReply, !.new_spot = NoSpot]

\* db = SessionLocal(); yield db
get_db(rq) == [rq EXCEPT !.session = "open", !.opened = @ + 1]

\* get_db with db.close() after the yield and no try/finally around it
get_db_close_on_success(rq) ==
    IF rq.exc # None
    THEN [ClearLocals(rq) EXCEPT !.pc = "done"]
    ELSE [ClearLocals(rq) EXCEPT !.session = "closed", !.pc = "done"]

\* finally: db.close().  Runs in the request's worker when the handler has
\* returned or raised.
get_db_finally(rq) == [ClearLocals(rq) EXCEPT !.session = "closed", !.pc = "done"]

\* The fields of the object that ParkingSpotResponse carries
ResponseSpot(obj) == [obj EXCEPT !.owner_name = None, !.is_active = None]

\* Lines 119-125: the success response
SuccessResponse(obj) ==
    [NoResponse EXCEPT !.status = 200,
                       !.spot = ResponseSpot(obj),
                       !.message = "Garden successfully marked as parking spot!"]

\* Raise with the exception swallowed and the success response sent
Raise_swallowed(rq, e) ==
    get_db_finally([rq EXCEPT !.exc = e,
                              !.response = SuccessResponse(rq.new_spot)])

\* A statement of lines 115-117 or 132 raises e.  Nothing in
\* mark_parking_spot or get_all_spots catches it (there is no try around
\* them), so the client is answered 500 with the framework's fixed body and
\* control goes to the finally of get_db.
Raise(rq, e) ==
    get_db_finally([rq EXCEPT
        !.exc = e,
        !.response = [NoResponse EXCEPT !.status = 500,
                                        !.detail = "Internal Server Error"]])

\* The handler returns resp
Return(rq, resp) == get_db_finally([rq EXCEPT !.response = resp])

\* The handler up to its first statement that reaches the database file:
\* POST /mark-spot/ arrives and the body validates; get_db yields a session;
\* lines 104-112 resolve the address and build the ORM object; line 115,
\* db.add(new_spot), puts it in the session or raises (addFails).
mark_parking_spot(r, body, reply, addFails) ==
    /\ NextToArrive(r)
    /\ LET g == get_address_from_google(GOOGLE_MAPS_API_KEY, reply)
           spot == ParkingSpotCreate(body)
           started ==
               [get_db(req[r]) EXCEPT
                   !.kind = "create",
                   !.body = body,
                   !.reply = IF g.calls > 0 THEN reply ELSE NoReply,
                   !.netCalls = @ + g.calls,
                   !.new_spot = ParkingSpotDB(spot.latitude, spot.longitude,
                                              g.address, spot.owner_name),
                   !.pc = "commit"]
       IN req' = [req EXCEPT ![r] = IF addFails
                                    THEN Raise(started, "InvalidRequestError")
                                    ELSE started]
    /\ UNCHANGED <<GOOGLE_MAPS_API_KEY, table>>

\* Line 116: db.commit() flushes the INSERT and commits it.  The statement
\* fails when the engine reports an error (fails) or when the address is
\* not a value sqlite3 can bind; otherwise the row is in the table and the
\* object knows its primary key.
db_commit(r, fails) ==
    /\ req[r].kind = "create"
    /\ req[r].pc = "commit"
    /\ IF fails
       THEN /\ req' = [req EXCEPT ![r] = Raise(@, "OperationalError")]
            /\ table' = table
       ELSE IF ~Bindable(req[r].new_spot.address)
       THEN /\ req' = [req EXCEPT ![r] = Raise(@, "ProgrammingError")]
            /\ table' = table
       ELSE LET row == InsertedRow(table, req[r].new_spot)
            IN /\ table' = Append(table, row)
               /\ req' = [req EXCEPT ![r] = [@ EXCEPT !.new_spot.id = row.id,
                                                     !.reply = NoReply,
                                                     !.pc = "refresh"]]
    /\ UNCHANGED GOOGLE_MAPS_API_KEY

\* Line 117: db.refresh(new_spot) reloads the object from its row or
\* raises; lines 119-125 build the response from the reloaded object
db_refresh(r, fails) ==
    /\ req[r].kind = "create"
    /\ req[r].pc = "refresh"
    /\ IF fails
       THEN req' = [req EXCEPT ![r] = Raise(@, "OperationalError")]
       ELSE LET k == CHOOSE k \in RowsWithId(table, req[r].new_spot.id) : TRUE
            IN req' = [req EXCEPT ![r] = Return(@, SuccessResponse(table[k]))]
    /\ UNCHANGED <<GOOGLE_MAPS_API_KEY, table>>

\* GET /spots/ arrives; get_db yields a session
begin_get_all_spots(r) ==
    /\ NextToArrive(r)
    /\ req' = [req EXCEPT ![r] = [get_db(@) EXCEPT !.kind = "list",
                                                  !.pc = "query"]]
    /\ UNCHANGED <<GOOGLE_MAPS_API_KEY, table>>

\* Create requests that have been answered with a success response
SucceededCreates(q) ==
    {s \in Requests : q[s].kind = "create" /\ q[s].response.status = 200}

\* Create requests that have arrived and are not finished
CreatesInFlight(q) ==
    {s \in Requests : q[s].kind = "create" /\ q[s].pc # "done"}

\* Line 132: db.query(ParkingSpotDB).all() returns every row or raises
get_all_spots(r, fails) ==
    /\ req[r].kind = "list"
    /\ req[r].pc = "query"
    /\ req' = [req EXCEPT ![r] =
                 IF fails THEN Raise(@, "OperationalError")
                 ELSE Return([@ EXCEPT
                                 !.okBefore = Cardinality(SucceededCreates(req)),
                                 !.quiet = (CreatesInFlight(req) = {})],
                             [NoResponse EXCEPT !.status = 200, !.rows = table])]
    /\ UNCHANGED <<GOOGLE_MAPS_API_KEY, table>>

\* read_root taking a session from get_db and keeping it
read_root_with_session(r) ==
    /\ NextToArrive(r)
    /\ req' = [req EXCEPT ![r] =
                 [get_db(@) EXCEPT
                     !.kind = "root",
                     !.response = [NoResponse EXCEPT
                                      !.status = 200,
                                      !.message = "Parking Backend is running!"],
                     !.pc = "done"]]
    /\ UNCHANGED <<GOOGLE_MAPS_API_KEY, table>>

\* Lines 135-137: GET /
read_root(r) ==
    /\ NextToArrive(r)
    /\ req' = [req EXCEPT ![r] =
                 [@ EXCEPT !.kind = "root",
                           !.response = [NoResponse EXCEPT
                                            !.status = 200,
                                            !.message = "Parking Backend is running!"],
                           !.pc = "done"]]
    /\ UNCHANGED <<GOOGLE_MAPS_API_KEY, table>>

-----------------------------------------------------------------------------

\* The statements of a request that has arrived
Step(r) ==
    \/ \E fails \in BOOLEAN : db_commit(r, fails)
    \/ \E fails \in BOOLEAN : db_refresh(r, fails)
    \/ \E fails \in BOOLEAN : get_all_spots(r, fails)

Arrive(r) ==
    \/ \E body \in Bodies, reply \in Replies, addFails \in BOOLEAN :
          mark_parking_spot(r, body, reply, addFails)
    \/ begin_get_all_spots(r)
    \/ read_root(r)

Next == \E r \in Requests : Arrive(r) \/ Step(r)

Spec == Init /\ [][Next]_vars

\* The inputs that decide which path a create-spot request takes: whether
\* the address can be stored.  Coordinates, owner and address text are
\* carried along and steer nothing.
PathBodies == {[latitude |-> 377749, longitude |-> -1224194, owner_name |-> Missing]}

PathReplies ==
    { Reply("error", "invalid", None, FALSE, <<>>),
      Reply("ok", "object", "OK", TRUE, <<Result("1 Main St"), Result("2 Side Rd")>>),
      Reply("ok", "object", "OK", TRUE, <<Result(Dict)>>) }

PathArrive(r) ==
    \/ \E body \in PathBodies, reply \in PathReplies, addFails \in BOOLEAN :
          mark_parking_spot(r, body, reply, addFails)
    \/ begin_get_all_spots(r)
    \/ read_root(r)

PathNext == \E r \in Requests : PathArrive(r) \/ Step(r)

\* A handler that has started runs to its end: the worker thread is not
\* starved, and the store calls return or raise
FairSpec == Init /\ [][PathNext]_vars /\ \A r \in Requests : WF_vars(Step(r))

-----------------------------------------------------------------------------
(* Properties *)

IsCreate(r) == req[r].kind = "create"

IsList(r) == req[r].kind = "list"

Succeeded(r) == req[r].response.status = 200

\* C1: a list-spots call made when exactly N create-spot requests have
\* succeeded and none is in progress returns exactly N records: a
\* successful create adds one record and nothing else adds or removes any.
ListReturnsOneRecordPerSucceededCreate ==
    \A r \in Requests :
        (IsList(r) /\ Succeeded(r) /\ req[r].quiet)
            => Len(req[r].response.rows) = req[r].okBefore

\* With the placeholder key, no create-spot makes an outbound request and
\* every address it builds, returns or stores is the given sentinel
DisabledLookupGives(sentinel) ==
    GOOGLE_MAPS_API_KEY = PLACEHOLDER_KEY =>
        /\ \A r \in Requests :
              IsCreate(r) =>
                 /\ req[r].netCalls = 0
                 /\ req[r].pc = "commit" => req[r].new_spot.address = sentinel
                 /\ Succeeded(r) => req[r].response.spot.address = sentinel
        /\ \A k \in 1..Len(table) : table[k].address = sentinel

\* C2, as stated: with the geocoding credential absent or the placeholder,
\* every create-spot stores and returns the address
\* "Address lookup disabled" and makes no outbound network call.
DisabledLookupGivesShortSentinel == DisabledLookupGives("Address lookup disabled")

\* C2, amended: with the placeholder credential, every create-spot that
\* stores or returns a record gives it the address
\* "Address lookup disabled (API Key missing)", and no create-spot makes an
\* outbound network call.
DisabledLookupGivesSentinel ==
    DisabledLookupGives("Address lookup disabled (API Key missing)")

DisabledLookupWitness ==
    /\ GOOGLE_MAPS_API_KEY = PLACEHOLDER_KEY
    /\ \E r \in Requests :
          /\ IsCreate(r) /\ Succeeded(r) /\ req[r].pc = "done"
          /\ RowsWithId(table, req[r].response.spot.id) # {}

\* C3, as stated: a store exception during create-spot yields a
\* server-error response whose detail is the exception's string.
StoreFailureCarriesExceptionText ==
    \A r \in Requests :
        (IsCreate(r) /\ req[r].exc # None)
            => /\ req[r].response.status = 500
               /\ req[r].response.detail = req[r].exc

\* C3, amended: a store exception during create-spot (raised by add, commit
\* or refresh) yields a 500 response with the framework's fixed body
\* "Internal Server Error", which does not carry the exception's text; the
\* response is never a success response.
StoreFailureIsServerError ==
    \A r \in Requests :
        (IsCreate(r) /\ req[r].exc # None)
            => /\ req[r].response.status = 500
               /\ req[r].response.detail = "Internal Server Error"
               /\ req[r].response.spot = NoSpot

StoreFailureWitness ==
    /\ \E r \in Requests : IsCreate(r) /\ req[r].exc = "InvalidRequestError"
    /\ \E r \in Requests :
          /\ IsCreate(r) /\ req[r].exc = "OperationalError"
          /\ req[r].pc = "done"

Sentinels ==
    {"Address lookup disabled (API Key missing)", "Address not found",
     "Error retrieving address"}

\* The reply is the one the service documents for a found address
UsableReply(reply) ==
    /\ reply.transport = "ok"
    /\ reply.json = "object"
    /\ reply.status = "OK"
    /\ reply.hasResults
    /\ Len(reply.results) > 0
    /\ reply.results[1].formatted_address \notin {Missing, None, Dict}

GeocodingFailed(r) ==
    \/ GOOGLE_MAPS_API_KEY = PLACEHOLDER_KEY
    \/ (req[r].reply # NoReply /\ ~UsableReply(req[r].reply))

\* C4: a geocoding failure of any kind never fails create-spot: the resolver
\* returns a sentinel string, the handler goes on to the insert, and the
\* insert is not refused because of the address.
GeocodingFailureGivesSentinel ==
    \A r \in Requests :
        /\ (IsCreate(r) /\ req[r].pc = "commit" /\ GeocodingFailed(r))
              => req[r].new_spot.address \in Sentinels
        /\ req[r].exc # "ProgrammingError"

\* C5: a create-spot that succeeds returns, and has stored, the submitted
\* latitude and longitude unchanged.
CoordinatesKeptExactly ==
    \A r \in Requests :
        (IsCreate(r) /\ Succeeded(r)) =>
            /\ req[r].response.spot.latitude = req[r].body.latitude
            /\ req[r].response.spot.longitude = req[r].body.longitude
            /\ RowsWithId(table, req[r].response.spot.id) # {}
            /\ \A k \in RowsWithId(table, req[r].response.spot.id) :
                  /\ table[k].latitude = req[r].body.latitude
                  /\ table[k].longitude = req[r].body.longitude

\* a success with coordinates outside the valid range
CoordinatesWitness ==
    \E r \in Requests :
        /\ IsCreate(r) /\ Succeeded(r)
        /\ req[r].body.latitude > 900000
        /\ req[r].body.longitude < -1800000

OwnerWanted(body) ==
    IF body.owner_name = Missing THEN "Anonymous" ELSE body.owner_name

\* C6: the record stored by a successful create-spot has owner_name
\* "Anonymous" when the request left owner_name out and the supplied
\* owner_name when it gave one, in the table and in every list-spots
\* response that has the record.
OwnerNameStored ==
    \A r \in Requests :
        (IsCreate(r) /\ Succeeded(r) /\ req[r].body.owner_name # None) =>
            LET id == req[r].response.spot.id
                want == OwnerWanted(req[r].body)
            IN /\ RowsWithId(table, id) # {}
               /\ \A k \in RowsWithId(table, id) : table[k].owner_name = want
               /\ \A l \in Requests :
                     (IsList(l) /\ Succeeded(l)) =>
                        \A k \in RowsWithId(req[l].response.rows, id) :
                           req[l].response.rows[k].owner_name = want

\* POST with owner_name "Alice", then GET /spots/: one record, owner Alice
OwnerNameWitness ==
    \E r, l \in Requests :
        /\ IsCreate(r) /\ Succeeded(r) /\ req[r].body.owner_name = "Alice"
        /\ IsList(l) /\ Succeeded(l) /\ req[l].quiet /\ req[l].okBefore = 1
        /\ Len(req[l].response.rows) = 1
        /\ req[l].response.rows[1].owner_name = "Alice"

RootPayload ==
    [NoResponse EXCEPT !.status = 200, !.message = "Parking Backend is running!"]

\* C7: GET root returns the same fixed payload in every state and changes
\* nothing: the table and the other requests are as before, no session is
\* opened and no outbound request is made.
RootHasNoSideEffects ==
    [][\A r \in Requests :
          (req[r].kind = "none" /\ req'[r].kind = "root") =>
              /\ req'[r].response = RootPayload
              /\ req'[r].pc = "done"
              /\ req'[r].session = "none"
              /\ req'[r].opened = 0
              /\ req'[r].netCalls = 0
              /\ table' = table
              /\ GOOGLE_MAPS_API_KEY' = GOOGLE_MAPS_API_KEY
              /\ \A s \in Requests \ {r} : req'[s] = req[s]]_vars

\* root answered while the table holds a record and a request is running
RootWitness ==
    \E r, s \in Requests :
        /\ req[r].kind = "root" /\ req[r].response = RootPayload
        /\ Len(table) > 0
        /\ req[s].pc = "refresh"

\* The reply cannot be read as the service's JSON
Malformed(reply) ==
    \/ reply.json # "object"
    \/ /\ reply.status = "OK"
       /\ \/ ~reply.hasResults
          \/ reply.results = <<>>
          \/ Head(reply.results).formatted_address = Missing

AddressFor(reply) ==
    IF reply.transport = "error" \/ Malformed(reply)
    THEN "Error retrieving address"
    ELSE IF reply.status = "OK"
    THEN Head(reply.results).formatted_address
    ELSE "Address not found"

\* C8: with a configured credential the resolver makes exactly one outbound
\* request per call and its result follows from the reply: the first
\* formatted address when the status is OK, "Address not found" for any
\* other status, "Error retrieving address" when the request fails or the
\* reply cannot be read.
ResolverFollowsReply ==
    GOOGLE_MAPS_API_KEY # PLACEHOLDER_KEY =>
        \A r \in Requests :
            IsCreate(r) =>
                /\ req[r].netCalls = 1
                /\ req[r].pc = "commit" =>
                      /\ req[r].reply \in Replies
                      /\ req[r].new_spot.address = AddressFor(req[r].reply)

ResolverWitness ==
    \E r \in Requests :
        /\ IsCreate(r) /\ req[r].pc = "commit"
        /\ req[r].reply.status = "OK"
        /\ Len(req[r].reply.results) = 2
        /\ req[r].new_spot.address = "1 Main St"

UniqueIds ==
    \A j, k \in 1..Len(table) : table[j].id = table[k].id => j = k

\* C9: under any interleaving of requests no two stored records share an
\* id, every stored record is active, and a stored record stays in the
\* table with all its fields unchanged.
SpotsAppendOnly ==
    /\ [](UniqueIds /\ \A k \in 1..Len(table) : table[k].is_active = "True")
    /\ [][/\ Len(table') >= Len(table)
          /\ \A k \in 1..Len(table) : table'[k] = table[k]]_vars

\* two create-spot requests in progress at once, both committed
SpotsWitness ==
    /\ Len(table) = 2
    /\ \E r, s \in Requests :
          /\ r # s
          /\ IsCreate(r) /\ req[r].pc = "refresh"
          /\ IsCreate(s) /\ req[s].pc = "refresh"

UsesSession(r) == req[r].kind \in {"create", "list"}

\* C10: every create-spot or list-spots request opens exactly one session,
\* the session is eventually closed on every path, also when a store call
\* raises, and no session is open once its request is finished.
SessionsReleased ==
    /\ [](\A r \in Requests :
             /\ req[r].opened = (IF UsesSession(r) THEN 1 ELSE 0)
             /\ req[r].pc = "done" /\ UsesSession(r) => req[r].session = "closed")
    /\ \A r \in Requests :
          (req[r].session = "open") ~> (req[r].session = "closed")

\* a request whose store call raised, finished, its session closed
SessionsWitness ==
    \E r, s \in Requests :
        /\ IsCreate(r) /\ req[r].exc # None /\ req[r].session = "closed"
        /\ IsList(s) /\ req[s].exc # None /\ req[s].session = "closed"

====
